---- MODULE Spec2Model ----
(***************************************************************************)
(* Model of async_uws HttpResponse (src/src/http_response.rs) and of the   *)
(* upgrade callers of examples/ws.rs.                                      *)
(*                                                                         *)
(* Threads: the task threads of Tasks run the handler code that calls the  *)
(* HttpResponse methods; tokio workers run the tasks spawned by end; the   *)
(* single loop thread "loop" runs the closures handed to loop_defer and    *)
(* the engine's own callbacks.                                             *)
(***************************************************************************)
EXTENDS Integers, Sequences, FiniteSets, TLC

\* ---------------------------------------------------------------- bounds
\* connections the engine accepts
MaxConn == 2
\* calls of the &self methods made in a run
MaxCalls == 1
\* inbound frames the engine delivers in a run
MaxFrames == 2

Conns == 1..MaxConn
Tasks == {"t1", "t2"}
Keys == {"k1", "k2"}
None == "None"
LoopThread == "loop"

Statuses == {"200 OK"}
HeaderKeys == {"content-type"}
HeaderValues == {"text/plain"}
HeaderInts == {7}
Bodies == {None, "body"}
Protocols == {"proto"}
Extensions == {None}
\* the request headers the upgrade callers read
Requests == [key: Keys \cup {None}, protocol: Protocols, extensions: Extensions]
\* requests that may or may not carry the optional headers
UpgradeRequests == [key: Keys \cup {None}, protocol: Protocols \cup {None},
                    extensions: Extensions \cup {"permessage-deflate"}]
FrameKinds == {"Message", "Ping", "Pong"}

VARIABLES
    obj,          \* obj[c]: "absent" | "live" (owned by the handler) | "moved" (self consumed)
    native,       \* native[c]: the Option field: "Some" | "None"
    owner,        \* the task thread that runs the handler of c
    is_aborted,   \* the shared AtomicBool
    calls,        \* number of &self method calls made so far
    lastCall,     \* the last &self call: <<connection, method, returned value>>
    upPc,         \* position of the task thread inside upgrade(c)
    upArgs,       \* arguments of the upgrade call of c
    storage,      \* the connection registry: a map key -> WsPerSocketUserData
    lock,         \* the registry mutex: "free" | holder thread | "poisoned"
    spawned,      \* tasks spawned by end that have not run yet
    loopQueue,    \* closures handed to loop_defer, not yet run
    loopPc,       \* position of the loop thread
    nativeBusy,   \* the connections whose native upgrade call is executing
    nativeLog,    \* nativeLog[c]: the calls made into the native handle of c
    panicked,     \* the panics: <<thread, connection whose call or closure panicked>>
    issued,       \* the consuming calls (end, upgrade) in the order they were made
    inserts,      \* the states inserted into the registry, in insertion order
    closed,       \* the connections whose close the engine has signalled
    chan,         \* chan[c]: the frames in flight in the channel created by upgrade(c)
    sunk,         \* sunk[c]: the frames pushed into the sink of that channel, in push order
    seen,         \* seen[c]: the frames the receive loop on its stream observed, in order
    rxPc,         \* rxPc[c]: the receive loop on the stream: "recv" | "stopped"
    ran           \* the deferred closures that ran, in run order, each with the abort
                  \* flag of its connection at that moment

vars == <<obj, native, owner, is_aborted, calls, lastCall, upPc, upArgs,
          storage, lock, spawned, loopQueue, loopPc, nativeBusy, nativeLog,
          panicked, issued, ran, inserts, closed, chan, sunk, seen, rxPc>>

handleVars == <<obj, native, owner>>
upgradeVars == <<upPc, upArgs, storage, lock>>
loopVars == <<loopQueue, loopPc, nativeBusy, ran>>
chanVars == <<chan, sunk, seen, rxPc>>

NoArgs == [key |-> None, protocol |-> None, extensions |-> None, user_data |-> None]

\* the closures handed to loop_defer, with what they capture
EndClosure(c, data, close_connection) ==
    [kind |-> "end", conn |-> c, data |-> data, close |-> close_connection, args |-> NoArgs]
UpgradeClosure(c, args) ==
    [kind |-> "upgrade", conn |-> c, data |-> None, close |-> FALSE, args |-> args]

\* HashMap::insert: the entry under the key is added or replaced
insert(map, k, v) == [x \in DOMAIN map \cup {k} |-> IF x = k THEN v ELSE map[x]]

\* ------------------------------------------------------------ helpers
\* a call into the native handle, with the thread that executes it
NativeCall(op, thread, arg) == [op |-> op, thread |-> thread, arg |-> arg]

Terminators == {"end", "end_without_body", "upgrade"}

\* uWS: the response has been completed by a terminating call
native_has_responded(c) ==
    \E i \in DOMAIN nativeLog[c] : nativeLog[c][i].op \in Terminators

\* a task runs one call at a time: it is busy while inside upgrade
Busy(t) == \E c \in Conns : owner[c] = t /\ upPc[c] \in {"locked", "inserted", "checked"}

CanCall(c) == obj[c] = "live" /\ ~Busy(owner[c])

loop_defer_front(q, cb) == <<cb>> \o q

loop_defer_twice(q, cb) == Append(Append(q, cb), cb)

\* loop_defer: the closure is appended to the loop's queue of deferred closures
loop_defer(q, cb) == Append(q, cb)

\* a method taking self by value consumes the HttpResponse
TakeSelf(o, c) == [o EXCEPT ![c] = "moved"]

\* ------------------------------------------------------------ Init
Init ==
    /\ obj = [c \in Conns |-> "absent"]
    /\ native = [c \in Conns |-> "None"]
    /\ owner \in [Conns -> Tasks]
    /\ owner[1] = "t1"
    /\ is_aborted = [c \in Conns |-> FALSE]
    /\ calls = 0
    /\ lastCall = <<>>
    /\ upPc = [c \in Conns |-> "idle"]
    /\ upArgs = [c \in Conns |-> NoArgs]
    /\ storage = <<>>
    /\ lock = "free"
    /\ spawned = {}
    /\ loopQueue = <<>>
    /\ loopPc = "idle"
    /\ nativeBusy = {}
    /\ nativeLog = [c \in Conns |-> <<>>]
    /\ panicked = {}
    /\ issued = <<>>
    /\ ran = <<>>
    /\ inserts = <<>>
    /\ closed = {}
    /\ chan = [c \in Conns |-> <<>>]
    /\ sunk = [c \in Conns |-> <<>>]
    /\ seen = [c \in Conns |-> <<>>]
    /\ rxPc = [c \in Conns |-> "recv"]

\* ------------------------------------------------------------ HttpResponse::new
\* the engine hands a new response to the handler task of the connection
new(c) ==
    /\ obj[c] = "absent"
    /\ obj' = [obj EXCEPT ![c] = "live"]
    /\ native' = [native EXCEPT ![c] = "Some"]
    /\ UNCHANGED <<owner, is_aborted, calls, lastCall, upgradeVars, spawned, loopVars,
                   nativeLog, panicked, issued, inserts, closed, chanVars>>

\* ------------------------------------------------------------ &self methods
CallUnchecked(c, op, arg) ==
    nativeLog' = [nativeLog EXCEPT ![c] = Append(@, NativeCall(op, owner[c], arg))]

\* `if let Some(response) = self.native.as_ref() { response.op(arg) }`:
\* the native call is made by the calling thread, and only when native is Some
IfSomeCall(c, op, arg) ==
    nativeLog' = IF native[c] = "Some"
                 THEN [nativeLog EXCEPT ![c] = Append(@, NativeCall(op, owner[c], arg))]
                 ELSE nativeLog

\* frame of a &self method: it counts the call and records what it returned
BorrowCall(c, method, ret) ==
    /\ CanCall(c)
    /\ calls < MaxCalls
    /\ calls' = calls + 1
    /\ lastCall' = <<c, method, ret>>
    /\ UNCHANGED <<handleVars, is_aborted, upgradeVars, spawned, loopVars, panicked, issued, inserts, closed, chanVars>>

write_status(c, status) ==
    /\ BorrowCall(c, "write_status", None)
    /\ IfSomeCall(c, "write_status", <<status>>)

write_header(c, key, value) ==
    /\ BorrowCall(c, "write_header", None)
    /\ IfSomeCall(c, "write_header", <<key, value>>)

write_header_int(c, key, value) ==
    /\ BorrowCall(c, "write_header_int", None)
    /\ IfSomeCall(c, "write_header_int", <<key, value>>)

end_without_body(c, close_connection) ==
    /\ BorrowCall(c, "end_without_body", None)
    /\ IfSomeCall(c, "end_without_body", <<close_connection>>)

has_responded_reported(nat, reported) == IF nat = "Some" THEN reported ELSE FALSE

\* the value has_responded returns: what the native handle reports, or true
has_responded_value(nat, reported) == IF nat = "Some" THEN reported ELSE TRUE

has_responded(c) ==
    /\ BorrowCall(c, "has_responded", has_responded_value(native[c], native_has_responded(c)))
    /\ IfSomeCall(c, "has_responded", <<>>)

\* ------------------------------------------------------------ HttpResponse::end
\* an end that drops the response of an aborted connection instead of spawning
end_unless_aborted(c, data, close_connection) ==
    /\ CanCall(c)
    /\ obj' = TakeSelf(obj, c)
    /\ spawned' = IF is_aborted[c] THEN spawned
                  ELSE spawned \cup {[conn |-> c, data |-> data, close |-> close_connection]}
    /\ issued' = Append(issued, [task |-> owner[c], conn |-> c, op |-> "end",
                                 data |-> data, close |-> close_connection,
                                 args |-> NoArgs])
    /\ UNCHANGED <<native, owner, is_aborted, calls, lastCall, upgradeVars,
                   loopVars, nativeLog, panicked, inserts, closed, chanVars>>

\* end(self, data, close_connection): self moves into a task handed to tokio::spawn
end(c, data, close_connection) ==
    /\ CanCall(c)
    /\ obj' = TakeSelf(obj, c)
    /\ spawned' = spawned \cup {[conn |-> c, data |-> data, close |-> close_connection]}
    /\ issued' = Append(issued, [task |-> owner[c], conn |-> c, op |-> "end",
                                 data |-> data, close |-> close_connection,
                                 args |-> NoArgs])
    /\ UNCHANGED <<native, owner, is_aborted, calls, lastCall, upgradeVars,
                   loopVars, nativeLog, panicked, inserts, closed, chanVars>>

\* the spawned task runs on a tokio worker: it builds the callback and defers it
end_task(s) ==
    /\ s \in spawned
    /\ spawned' = spawned \ {s}
    /\ loopQueue' = loop_defer(loopQueue, EndClosure(s.conn, s.data, s.close))
    /\ UNCHANGED <<handleVars, is_aborted, calls, lastCall, upgradeVars, loopPc,
                   nativeBusy, ran, nativeLog, panicked, issued, inserts, closed, chanVars>>

end_callback_keep_open(cb) == <<cb.data, FALSE>>

\* the arguments the end callback passes to the native end
end_callback_args(cb) == <<cb.data, cb.close>>

\* the end callback on the loop thread: self.native.take().unwrap(), then res.end
end_callback ==
    /\ loopPc = "idle"
    /\ loopQueue # <<>>
    /\ Head(loopQueue).kind = "end"
    /\ LET cb == Head(loopQueue)
           c == cb.conn
       IN /\ loopQueue' = Tail(loopQueue)
          /\ ran' = Append(ran, [conn |-> c, aborted |-> is_aborted[c]])
          /\ IF native[c] = "Some"
             THEN /\ native' = [native EXCEPT ![c] = "None"]
                  /\ nativeLog' = [nativeLog EXCEPT ![c] =
                                     Append(@, NativeCall("end", LoopThread, end_callback_args(cb)))]
                  /\ UNCHANGED <<loopPc, panicked>>
             ELSE \* unwrap of None panics on the loop thread
                  /\ loopPc' = "dead"
                  /\ panicked' = panicked \cup {<<LoopThread, c>>}
                  /\ UNCHANGED <<native, nativeLog>>
    /\ UNCHANGED <<obj, owner, is_aborted, calls, lastCall, upgradeVars,
                   spawned, nativeBusy, issued, inserts, closed, chanVars>>

\* ------------------------------------------------------------ HttpResponse::upgrade
unwrap_or_payload(user_data) == "UpgradeReqInfo"

\* custom_user_data: user_data.unwrap_or_default()
unwrap_or_default(user_data) == IF user_data = None THEN "default" ELSE user_data

\* the WsPerSocketUserData built by upgrade; chan is the channel created with it
WsPerSocketUserData(c, a) ==
    [id |-> a.key, custom_user_data |-> unwrap_or_default(a.user_data), chan |-> c]

\* upgrade(self, ws_key_string, ws_protocol, ws_extensions, user_data) up to the
\* lock() of the registration block.  hasStorage: per_socket_data_storage is Some
\* (fixed at construction, read only here).
upgrade(c, ws_key_string, ws_protocol, ws_extensions, user_data, hasStorage) ==
    /\ CanCall(c)
    /\ obj' = TakeSelf(obj, c)
    /\ issued' = Append(issued, [task |-> owner[c], conn |-> c, op |-> "upgrade",
                                 data |-> None, close |-> FALSE,
                                 args |-> [key |-> ws_key_string, protocol |-> ws_protocol,
                                           extensions |-> ws_extensions,
                                           user_data |-> user_data]])
    /\ IF ~hasStorage \/ lock = "poisoned"
       THEN \* unwrap of None, or of the poisoned lock's error: the task panics
            /\ panicked' = panicked \cup {<<owner[c], c>>}
            /\ upPc' = [upPc EXCEPT ![c] = "panicked"]
            /\ UNCHANGED <<lock, upArgs>>
       ELSE /\ lock = "free"
            /\ lock' = owner[c]
            /\ upPc' = [upPc EXCEPT ![c] = "locked"]
            /\ upArgs' = [upArgs EXCEPT ![c] =
                             [key |-> ws_key_string, protocol |-> ws_protocol,
                              extensions |-> ws_extensions, user_data |-> user_data]]
            /\ UNCHANGED panicked
    /\ UNCHANGED <<native, owner, is_aborted, calls, lastCall, storage, spawned, loopVars,
                   nativeLog, inserts, closed, chanVars>>

\* the registration block without the insert
upgrade_insert_skip(c) ==
    /\ upPc[c] = "locked"
    /\ lock' = "free"
    /\ upPc' = [upPc EXCEPT ![c] = "inserted"]
    /\ UNCHANGED <<handleVars, is_aborted, calls, lastCall, upArgs, storage, inserts, spawned,
                   loopVars, nativeLog, panicked, issued, closed, chanVars>>

\* storage.insert(user_data_id, Box::new(user_data)); the guard is dropped
upgrade_insert(c) ==
    /\ upPc[c] = "locked"
    /\ storage' = insert(storage, upArgs[c].key, WsPerSocketUserData(c, upArgs[c]))
    /\ inserts' = Append(inserts, WsPerSocketUserData(c, upArgs[c]))
    /\ lock' = "free"
    /\ upPc' = [upPc EXCEPT ![c] = "inserted"]
    /\ UNCHANGED <<handleVars, is_aborted, calls, lastCall, upArgs, spawned, loopVars,
                   nativeLog, panicked, issued, closed, chanVars>>

\* the flag is loaded and the upgrade goes on whatever its value
upgrade_load_ignored(c) ==
    /\ upPc[c] = "inserted"
    /\ upPc' = [upPc EXCEPT ![c] = "checked"]
    /\ UNCHANGED <<handleVars, is_aborted, calls, lastCall, upArgs, storage, lock, spawned,
                   loopVars, nativeLog, panicked, issued, inserts, closed, chanVars>>

\* the flag is read with a swap that clears it
upgrade_swap_aborted(c) ==
    /\ upPc[c] = "inserted"
    /\ upPc' = [upPc EXCEPT ![c] = IF is_aborted[c] THEN "abandoned" ELSE "checked"]
    /\ upArgs' = [upArgs EXCEPT ![c] = IF is_aborted[c] THEN NoArgs ELSE @]
    /\ is_aborted' = [is_aborted EXCEPT ![c] = FALSE]
    /\ UNCHANGED <<handleVars, calls, lastCall, storage, lock, spawned,
                   loopVars, nativeLog, panicked, issued, inserts, closed, chanVars>>

\* let is_aborted = self.is_aborted.load(SeqCst); if is_aborted { return }
upgrade_load_aborted(c) ==
    /\ upPc[c] = "inserted"
    /\ upPc' = [upPc EXCEPT ![c] = IF is_aborted[c] THEN "abandoned" ELSE "checked"]
    /\ upArgs' = [upArgs EXCEPT ![c] = IF is_aborted[c] THEN NoArgs ELSE @]
    /\ UNCHANGED <<handleVars, is_aborted, calls, lastCall, storage, lock, spawned,
                   loopVars, nativeLog, panicked, issued, inserts, closed, chanVars>>

\* loop_defer(self.uws_loop, callback)
upgrade_defer(c) ==
    /\ upPc[c] = "checked"
    /\ upPc' = [upPc EXCEPT ![c] = "deferred"]
    /\ loopQueue' = loop_defer(loopQueue, UpgradeClosure(c, upArgs[c]))
    /\ upArgs' = [upArgs EXCEPT ![c] = NoArgs]
    /\ UNCHANGED <<handleVars, is_aborted, calls, lastCall, storage, lock, spawned,
                   loopPc, nativeBusy, ran, nativeLog, panicked, issued, inserts, closed, chanVars>>

\* the state the upgrade that built the closure registered
user_data_own(map, cb) == WsPerSocketUserData(cb.conn, cb.args)

\* storage.get_mut(&user_data_id).unwrap().as_mut(): the entry now under the key
user_data_ref(map, cb) == map[cb.args.key]

\* the upgrade callback on the loop thread, up to the entry into the native upgrade:
\* lock().unwrap(), get_mut(&user_data_id).unwrap(), self.native.unwrap().upgrade(..)
upgrade_callback ==
    /\ loopPc = "idle"
    /\ loopQueue # <<>>
    /\ Head(loopQueue).kind = "upgrade"
    /\ lock \in {"free", "poisoned"}
    /\ LET cb == Head(loopQueue)
           c == cb.conn
           k == cb.args.key
       IN /\ loopQueue' = Tail(loopQueue)
          /\ ran' = Append(ran, [conn |-> c, aborted |-> is_aborted[c]])
          /\ IF lock = "poisoned" \/ k \notin DOMAIN storage \/ native[c] = "None"
             THEN \* an unwrap panics on the loop thread; a held guard poisons the lock
                  /\ loopPc' = "dead"
                  /\ lock' = "poisoned"
                  /\ panicked' = panicked \cup {<<LoopThread, c>>}
                  /\ UNCHANGED <<nativeBusy, nativeLog>>
             ELSE /\ loopPc' = "up_native"
                  /\ lock' = LoopThread
                  /\ nativeBusy' = {c}
                  /\ nativeLog' = [nativeLog EXCEPT ![c] =
                        Append(@, NativeCall("upgrade", LoopThread,
                                  <<k, cb.args.protocol, cb.args.extensions,
                                    user_data_ref(storage, cb)>>))]
                  /\ UNCHANGED panicked
    /\ UNCHANGED <<handleVars, is_aborted, calls, lastCall, upPc, upArgs, storage, spawned,
                   issued, inserts, closed, chanVars>>

\* the native upgrade returns and the callback ends: the guard `storage` is dropped
upgrade_callback_return ==
    /\ loopPc = "up_native"
    /\ loopPc' = "idle"
    /\ lock' = "free"
    /\ nativeBusy' = {}
    /\ UNCHANGED <<handleVars, is_aborted, calls, lastCall, upPc, upArgs, storage, spawned,
                   loopQueue, ran, nativeLog, panicked, issued, inserts, closed, chanVars>>

\* ------------------------------------------------------------ upgrade callers
\* req.get_header("sec-websocket-key").expect(..): a missing key panics the caller
expect_key(c, req) ==
    /\ req.key = None
    /\ CanCall(c)
    /\ obj' = TakeSelf(obj, c)
    /\ panicked' = panicked \cup {<<owner[c], c>>}
    /\ upPc' = [upPc EXCEPT ![c] = "no_key"]
    /\ UNCHANGED <<native, owner, is_aborted, calls, lastCall, upArgs, storage, lock,
                   spawned, loopVars, nativeLog, issued, inserts, closed, chanVars>>

default_upgrade(c, req, hasStorage) ==
    \/ expect_key(c, req)
    \/ /\ req.key # None
       /\ upgrade(c, req.key, req.protocol, req.extensions, None, hasStorage)

\* examples/ws.rs: the same with a per-connection payload
custom_upgrade(c, req, hasStorage) ==
    \/ expect_key(c, req)
    \/ /\ req.key # None
       /\ upgrade(c, req.key, req.protocol, req.extensions, "UpgradeReqInfo", hasStorage)

\* ------------------------------------------------------------ the engine
\* the engine's abort callback, on the loop thread, for a response still pending
engine_abort(c) ==
    /\ obj[c] # "absent"
    /\ loopPc = "idle"
    /\ ~is_aborted[c]
    /\ ~native_has_responded(c)
    /\ is_aborted' = [is_aborted EXCEPT ![c] = TRUE]
    /\ UNCHANGED <<handleVars, calls, lastCall, upgradeVars, spawned, loopVars, nativeLog,
                   panicked, issued, inserts, closed, chanVars>>

\* HashMap::remove: the entry under the key, if any, is gone
remove(map, k) == [x \in DOMAIN map \ {k} |-> map[x]]

\* the handshake key under which upgrade registered the state of c
KeyOf(c) == {issued[i].args.key : i \in {j \in DOMAIN issued :
                                           issued[j].conn = c /\ issued[j].op = "upgrade"}}

\* the channel whose sink the engine holds for the WebSocket of c: the one of the
\* per-socket state the native upgrade call of c was given
Sink(c) == {nativeLog[c][i].arg[4].chan : i \in {j \in DOMAIN nativeLog[c] :
                                                   nativeLog[c][j].op = "upgrade"}}

Frame(kind, ch) == [kind |-> kind, seq |-> Len(sunk[ch]) + 1]

\* UnboundedSender::send: the frame is queued, unless the receiver is gone
send(ch, kind) ==
    IF rxPc[ch] = "stopped"
    THEN UNCHANGED <<chan, sunk>>
    ELSE /\ chan' = [chan EXCEPT ![ch] = Append(@, Frame(kind, ch))]
         /\ sunk' = [sunk EXCEPT ![ch] = Append(@, Frame(kind, ch))]

\* the close path, on the loop thread: once the engine has signalled the abort of
\* c, or the close of the WebSocket c was upgraded to, the entry registered under
\* the handshake key of c is removed from the registry; an open WebSocket gets a
\* Close frame pushed first
engine_close(c) ==
    /\ c \notin closed
    /\ loopPc = "idle"
    /\ lock = "free"
    /\ is_aborted[c] \/ Sink(c) # {}
    /\ \E k \in KeyOf(c) :
          /\ k \in DOMAIN storage
          /\ storage' = remove(storage, k)
    /\ closed' = closed \cup {c}
    /\ IF Sink(c) = {}
       THEN UNCHANGED <<chan, sunk>>
       ELSE \E ch \in Sink(c) : send(ch, "Close")
    /\ UNCHANGED <<handleVars, is_aborted, calls, lastCall, upPc, upArgs, lock, spawned,
                   loopVars, nativeLog, panicked, issued, inserts, seen, rxPc>>

\* inbound frames delivered so far
Inbound(ch) == {i \in DOMAIN sunk[ch] : sunk[ch][i].kind # "Close"}
RECURSIVE Delivered(_)
Delivered(n) == IF n = 0 THEN 0 ELSE Cardinality(Inbound(n)) + Delivered(n - 1)

\* the engine's message, ping and pong callbacks of the open WebSocket of c, on the
\* loop thread: the inbound frame is pushed into the sink
engine_message(c, kind) ==
    /\ c \notin closed
    /\ loopPc = "idle"
    /\ Delivered(MaxConn) < MaxFrames
    /\ \E ch \in Sink(c) : send(ch, kind)
    /\ UNCHANGED <<handleVars, is_aborted, calls, lastCall, upgradeVars, spawned, loopVars,
                   nativeLog, panicked, issued, inserts, closed, seen, rxPc>>

handler_ws_continue(frame) == "recv"

\* handler_ws: `if let WsMessage::Close(..) = msg { break }`
handler_ws_next(frame) == IF frame.kind = "Close" THEN "stopped" ELSE "recv"

\* handler_ws: one turn of `while let Some(msg) = ws.stream.recv().await`
handler_ws(ch) ==
    /\ rxPc[ch] = "recv"
    /\ chan[ch] # <<>>
    /\ LET msg == Head(chan[ch])
       IN /\ chan' = [chan EXCEPT ![ch] = Tail(@)]
          /\ seen' = [seen EXCEPT ![ch] = Append(@, msg)]
          /\ rxPc' = [rxPc EXCEPT ![ch] = handler_ws_next(msg)]
    /\ UNCHANGED <<handleVars, is_aborted, calls, lastCall, upgradeVars, spawned, loopVars,
                   nativeLog, panicked, issued, inserts, closed, sunk>>

Next ==
    \/ \E c \in Conns : new(c)
    \/ \E c \in Conns : \E s \in Statuses : write_status(c, s)
    \/ \E c \in Conns : \E k \in HeaderKeys, v \in HeaderValues : write_header(c, k, v)
    \/ \E c \in Conns : \E k \in HeaderKeys, v \in HeaderInts : write_header_int(c, k, v)
    \/ \E c \in Conns : \E cl \in BOOLEAN : end_without_body(c, cl)
    \/ \E c \in Conns : has_responded(c)
    \/ \E c \in Conns : \E d \in Bodies, cl \in BOOLEAN : end(c, d, cl)
    \/ \E s \in spawned : end_task(s)
    \/ end_callback
    \/ \E c \in Conns : \E req \in Requests, up \in BOOLEAN : default_upgrade(c, req, up)
    \/ \E c \in Conns : \E req \in Requests, up \in BOOLEAN : custom_upgrade(c, req, up)
    \/ \E c \in Conns : upgrade_insert(c)
    \/ \E c \in Conns : upgrade_load_aborted(c)
    \/ \E c \in Conns : upgrade_defer(c)
    \/ upgrade_callback
    \/ upgrade_callback_return
    \/ \E c \in Conns : engine_abort(c)
    \/ \E c \in Conns : engine_close(c)

Spec == Init /\ [][Next]_vars

\* The same program started with a response whose native handle is already None
\* (the field is an Option the crate can empty): the states in which the &self
\* methods take their None branch.
InitHandle ==
    /\ obj = [c \in Conns |-> IF c = 1 THEN "live" ELSE "absent"]
    /\ native = [c \in Conns |-> "None"]
    /\ owner \in [Conns -> Tasks]
    /\ owner[1] = "t1"
    /\ is_aborted = [c \in Conns |-> FALSE]
    /\ calls = 0
    /\ lastCall = <<>>
    /\ upPc = [c \in Conns |-> "idle"]
    /\ upArgs = [c \in Conns |-> NoArgs]
    /\ storage = <<>>
    /\ lock = "free"
    /\ spawned = {}
    /\ loopQueue = <<>>
    /\ loopPc = "idle"
    /\ nativeBusy = {}
    /\ nativeLog = [c \in Conns |-> <<>>]
    /\ panicked = {}
    /\ issued = <<>>
    /\ ran = <<>>
    /\ inserts = <<>>
    /\ closed = {}
    /\ chan = [c \in Conns |-> <<>>]
    /\ sunk = [c \in Conns |-> <<>>]
    /\ seen = [c \in Conns |-> <<>>]
    /\ rxPc = [c \in Conns |-> "recv"]

SpecHandle == InitHandle /\ [][Next]_vars

\* tokio runs every spawned task, a task inside upgrade keeps running, and the
\* loop thread keeps taking closures from its queue
Fairness ==
    /\ WF_vars(\E s \in spawned : end_task(s))
    /\ WF_vars(end_callback)
    /\ WF_vars(upgrade_callback)
    /\ WF_vars(upgrade_callback_return)
    /\ \A c \in Conns : WF_vars(upgrade_insert(c))
    /\ \A c \in Conns : WF_vars(upgrade_load_aborted(c))
    /\ \A c \in Conns : WF_vars(upgrade_defer(c))

FairSpec == Spec /\ Fairness

\* default_upgrade alone, over requests with and without the optional headers.
NextUpgrade ==
    \/ \E c \in Conns : new(c)
    \/ \E c \in Conns : \E req \in UpgradeRequests, up \in BOOLEAN :
          default_upgrade(c, req, up)
    \/ \E c \in Conns : upgrade_insert(c)
    \/ \E c \in Conns : upgrade_load_aborted(c)
    \/ \E c \in Conns : upgrade_defer(c)
    \/ upgrade_callback
    \/ upgrade_callback_return
    \/ \E c \in Conns : engine_abort(c)
    \/ \E c \in Conns : engine_close(c)

SpecUpgrade == Init /\ [][NextUpgrade]_vars

\* The upgraded connections with the traffic of their channels.
NextChannel ==
    \/ \E c \in Conns : new(c)
    \/ \E c \in Conns : \E req \in Requests, up \in BOOLEAN : default_upgrade(c, req, up)
    \/ \E c \in Conns : upgrade_insert(c)
    \/ \E c \in Conns : upgrade_load_aborted(c)
    \/ \E c \in Conns : upgrade_defer(c)
    \/ upgrade_callback
    \/ upgrade_callback_return
    \/ \E c \in Conns : engine_close(c)
    \/ \E c \in Conns : \E kind \in FrameKinds : engine_message(c, kind)
    \/ \E ch \in Conns : handler_ws(ch)

SpecChannel == Init /\ [][NextChannel]_vars

\* ============================================================ claims
Calls(c, op) == {i \in DOMAIN nativeLog[c] : nativeLog[c][i].op = op}
WriteMethods == {"write_status", "write_header", "write_header_int"}
IssuedCalls(c, op) == {i \in DOMAIN issued : issued[i].conn = c /\ issued[i].op = op}
RanAt(c) == {p \in DOMAIN ran : ran[p].conn = c}

\* C1: every call into a native response handle executes on the loop thread,
\* never on the task thread that invoked the HttpResponse method.
C1_NativeCallsOnLoopThread ==
    \A c \in Conns : \A i \in DOMAIN nativeLog[c] : nativeLog[c][i].thread = LoopThread

\* C2: for every connection and every handshake key, at most one native upgrade
\* call is issued, whatever the interleaving with the engine setting the abort flag.
C2_AtMostOneUpgradePerKey ==
    \A c \in Conns : \A k \in Keys :
        Cardinality({i \in Calls(c, "upgrade") : nativeLog[c][i].arg[1] = k}) <= 1

\* a native upgrade call was made for a connection the engine had already aborted
C2_Witness ==
    \E c \in Conns : Calls(c, "upgrade") # {} /\ is_aborted[c]

\* C3: when the abort flag is true at the moment the deferred upgrade closure
\* runs, no native upgrade call is made for that connection.
C3_AbortedBeforeRunNoUpgrade ==
    \A p \in DOMAIN ran : ran[p].aborted => Calls(ran[p].conn, "upgrade") = {}

\* C4: a request without sec-websocket-key does not panic the caller of
\* default_upgrade (and registers and defers nothing).
C4_MissingKeyNoPanic ==
    \A c \in Conns : upPc[c] = "no_key" =>
        /\ <<owner[c], c>> \notin panicked
        /\ \A k \in DOMAIN storage : storage[k].chan # c
        /\ \A i \in DOMAIN loopQueue : loopQueue[i].conn # c

\* C5: once an end-like operation has been invoked the native handle is consumed,
\* and at most one terminating native call reaches the handle.
C5_EndLikeConsumesNative ==
    \A c \in Conns :
        /\ (Calls(c, "end_without_body") # {} \/ IssuedCalls(c, "end") # {})
              => (native[c] = "None" \/ obj[c] = "moved")
        /\ Cardinality({i \in DOMAIN nativeLog[c] : nativeLog[c][i].op \in Terminators}) <= 1

\* the closure of end(c, ..) has not run yet
EndPending(c) ==
    \/ \E s \in spawned : s.conn = c
    \/ \E i \in DOMAIN loopQueue : loopQueue[i].conn = c /\ loopQueue[i].kind = "end"

\* the safety part of C6: no native end while the closure is pending, at most one
\* closure and one native end per connection, made by the loop thread with the
\* arguments of the call, and made once the closure is gone from the queue
C6_EndSafety ==
    \A c \in Conns :
        /\ Cardinality(Calls(c, "end")) <= 1
        /\ Cardinality({s \in spawned : s.conn = c})
             + Cardinality({i \in DOMAIN loopQueue : loopQueue[i].conn = c}) <= 1
        /\ EndPending(c) => Calls(c, "end") = {}
        /\ \A i \in Calls(c, "end") :
              /\ nativeLog[c][i].thread = LoopThread
              /\ \E j \in IssuedCalls(c, "end") :
                    nativeLog[c][i].arg = <<issued[j].data, issued[j].close>>
        /\ (IssuedCalls(c, "end") # {} /\ ~EndPending(c) /\ loopPc # "dead")
              => Cardinality(Calls(c, "end")) = 1

\* C6: end makes no native call in the caller's step; exactly one closure is
\* submitted, and it performs exactly one native end, on the loop thread, with
\* the body and close_connection given to end; while the loop runs it does run.
C6_EndDispatched ==
    /\ []C6_EndSafety
    /\ \A c \in Conns :
          (IssuedCalls(c, "end") # {}) ~> (Cardinality(Calls(c, "end")) = 1 \/ loopPc = "dead")

C6_Witness ==
    \E c \in Conns : \E i \in Calls(c, "end") :
        nativeLog[c][i].arg = <<"body", TRUE>> /\ ~EndPending(c)

\* C7: write_status, write_header and write_header_int on a response whose native
\* handle is None make no native call, change no state and do not fail.
C7_WriteAfterConsumeIsNoOp ==
    [][(/\ calls' = calls + 1
        /\ lastCall'[2] \in WriteMethods
        /\ native[lastCall'[1]] = "None")
       => UNCHANGED <<obj, native, owner, is_aborted, upPc, upArgs, storage, lock, spawned,
                      loopQueue, loopPc, nativeBusy, nativeLog, panicked, issued,
                      ran, inserts, closed, chan, sunk, seen, rxPc>>]_vars

C7_Witness ==
    /\ lastCall # <<>>
    /\ lastCall[2] \in WriteMethods
    /\ obj[lastCall[1]] = "live"
    /\ native[lastCall[1]] = "None"
    /\ nativeLog[lastCall[1]] = <<>>

\* C8: has_responded returns true when native is None, and what the native handle
\* reports while native is Some.
C8_HasResponded ==
    [][(calls' = calls + 1 /\ lastCall'[2] = "has_responded")
       => LET c == lastCall'[1]
          IN lastCall'[3] = (native[c] = "None" \/ Calls(c, "end") # {}
                                \/ Calls(c, "end_without_body") # {}
                                \/ Calls(c, "upgrade") # {})]_vars

C8_Witness ==
    /\ lastCall # <<>>
    /\ lastCall[2] = "has_responded"
    /\ lastCall[3] = TRUE
    /\ native[lastCall[1]] = "None"
    /\ Calls(lastCall[1], "end") = {}

\* C9 (as stated): the closures of two consuming calls made by one task run on
\* the loop thread in the order of the calls.
C9_SubmissionOrder ==
    \A i, j \in DOMAIN issued :
        (i < j /\ issued[i].task = issued[j].task)
            => \A p \in RanAt(issued[i].conn) : \A q \in RanAt(issued[j].conn) : p < q

\* C9 (amended): on every connection the header writes precede the native end in
\* the handle's call order; and when the earlier of two consuming calls of one
\* task is an upgrade, its closure runs before the later call's closure.
C9_OrderAfterUpgrade ==
    /\ \A c \in Conns : \A i \in DOMAIN nativeLog[c] : \A e \in Calls(c, "end") :
          nativeLog[c][i].op \in WriteMethods => i < e
    /\ \A i, j \in DOMAIN issued :
          (i < j /\ issued[i].task = issued[j].task /\ issued[i].op = "upgrade")
              => \A p \in RanAt(issued[i].conn) : \A q \in RanAt(issued[j].conn) : p < q

C9_Witness ==
    \E i, j \in DOMAIN issued :
        /\ i < j /\ issued[i].task = issued[j].task /\ issued[i].op = "upgrade"
        /\ RanAt(issued[i].conn) # {} /\ RanAt(issued[j].conn) # {}
        /\ \E c \in Conns : \E w \in DOMAIN nativeLog[c] : \E e \in Calls(c, "end") :
              nativeLog[c][w].op \in WriteMethods /\ w < e

\* C10: while a native upgrade call is executing, no thread holds the registry lock.
C10_NoLockDuringNative ==
    nativeBusy # {} => lock = "free"

C12_KeyAlone ==
    \A c, d \in Conns : \A i \in Calls(c, "upgrade") : \A j \in Calls(d, "upgrade") :
        nativeLog[c][i].arg[1] = nativeLog[d][j].arg[1]
            => /\ nativeLog[c][i].arg[2] = nativeLog[d][j].arg[2]
               /\ nativeLog[c][i].arg[3] = nativeLog[d][j].arg[3]

\* C12 (amended): default_upgrade is upgrade called with the key and the optional
\* protocol and extensions headers of the request and with no payload: every state
\* it registers is stored under its key with the default custom_user_data, and every
\* native upgrade it dispatches carries the key, protocol and extensions of the call
\* and a state with the default custom_user_data.
C12_DefaultUpgrade ==
    /\ \A k \in DOMAIN storage :
          storage[k].id = k /\ storage[k].custom_user_data = "default"
    /\ \A i \in DOMAIN issued : issued[i].op = "upgrade" /\ issued[i].args.user_data = None
    /\ \A c \in Conns : \A i \in Calls(c, "upgrade") : \E j \in IssuedCalls(c, "upgrade") :
          /\ nativeLog[c][i].arg[1] = issued[j].args.key
          /\ nativeLog[c][i].arg[2] = issued[j].args.protocol
          /\ nativeLog[c][i].arg[3] = issued[j].args.extensions
          /\ nativeLog[c][i].arg[4].id = issued[j].args.key
          /\ nativeLog[c][i].arg[4].custom_user_data = "default"

\* two native upgrade calls dispatched by default_upgrade with the same key and
\* different protocol and extensions
C12_Witness ==
    \E c, d \in Conns : \E i \in Calls(c, "upgrade") : \E j \in Calls(d, "upgrade") :
        /\ nativeLog[c][i].arg[1] = nativeLog[d][j].arg[1]
        /\ nativeLog[c][i].arg[2] # nativeLog[d][j].arg[2]
        /\ nativeLog[c][i].arg[3] # nativeLog[d][j].arg[3]
        /\ nativeLog[c][i].arg[4].custom_user_data = "default"

\* the step in which upgrade(c) reads the abort flag
LoadsAborted(c) == upPc[c] = "inserted" /\ upPc'[c] \in {"checked", "abandoned"}

C14_AbandonOnAbort ==
    /\ [](\A c \in Conns : upPc[c] = "abandoned" =>
            /\ \A i \in DOMAIN loopQueue : loopQueue[i].conn # c
            /\ RanAt(c) = {}
            /\ Calls(c, "upgrade") = {})
    /\ [][\A c \in Conns : (LoadsAborted(c) /\ is_aborted[c]) =>
            /\ upPc'[c] = "abandoned"
            /\ UNCHANGED <<loopQueue, spawned, nativeLog, storage, panicked>>]_vars
    /\ [][(\E k \in DOMAIN storage : k \notin DOMAIN storage') => closed' # closed]_vars

\* an abandoned upgrade whose entry is still in the registry, with the loop queue
\* empty and the close path not yet run for the connection
C14_Witness ==
    \E c \in Conns : \E k \in DOMAIN storage :
        /\ upPc[c] = "abandoned" /\ storage[k].chan = c
        /\ c \notin closed /\ loopQueue = <<>> /\ nativeLog[c] = <<>>

\* C15: end does not consult the abort flag: for a connection whose flag the engine
\* has set, the closure of end is still submitted (it is pending or has run), a
\* closure that ran with the flag true has made the native end, and while the loop
\* runs the native end is eventually made.
C15_EndIgnoresAbort ==
    /\ [](\A c \in Conns : (IssuedCalls(c, "end") # {} /\ is_aborted[c]) =>
            /\ EndPending(c) \/ RanAt(c) # {}
            /\ \A p \in RanAt(c) : ran[p].aborted => Cardinality(Calls(c, "end")) = 1)
    /\ \A c \in Conns :
          (IssuedCalls(c, "end") # {} /\ is_aborted[c]) ~> (Calls(c, "end") # {} \/ loopPc = "dead")

\* the closure of an end ran with the abort flag already true and made the native end
C15_Witness ==
    \E c \in Conns : \E p \in RanAt(c) :
        ran[p].aborted /\ IssuedCalls(c, "end") # {} /\ Calls(c, "end") # {}

\* C16: whenever a deferred upgrade closure runs on the loop thread, the registry
\* holds an entry for its handshake key, so the lookup of the closure does not fail.
C16_LookupNeverFails ==
    [][(/\ loopQueue # <<>>
        /\ Head(loopQueue).kind = "upgrade"
        /\ Len(ran') = Len(ran) + 1)
       => Head(loopQueue).args.key \in DOMAIN storage]_vars

\* the states inserted under key k so far
InsertsOf(k) == {i \in DOMAIN inserts : inserts[i].id = k}

\* C17: the registry holds one entry per handshake key, stored under its own id; an
\* insert adds or replaces the entry of its key with the state built by that upgrade
\* and touches no other entry; and a deferred closure that makes the native upgrade
\* passes the state inserted last under its key, which is the later upgrade's state
\* when the key was reused while the closure was pending.
C17_ReplaceOnReuse ==
    /\ [](\A k \in DOMAIN storage : storage[k].id = k /\ InsertsOf(k) # {})
    /\ [][\A c \in Conns : (upPc[c] = "locked" /\ upPc'[c] = "inserted") =>
            /\ DOMAIN storage' = DOMAIN storage \cup {upArgs[c].key}
            /\ storage'[upArgs[c].key] = WsPerSocketUserData(c, upArgs[c])
            /\ \A k \in DOMAIN storage : k # upArgs[c].key => storage'[k] = storage[k]]_vars
    /\ [][\A c \in Conns : Len(nativeLog'[c]) = Len(nativeLog[c]) + 1 =>
            LET call == nativeLog'[c][Len(nativeLog'[c])]
            IN call.op = "upgrade" =>
                  \E i \in InsertsOf(call.arg[1]) :
                      /\ call.arg[4] = inserts[i]
                      /\ \A j \in InsertsOf(call.arg[1]) : j <= i]_vars

\* a native upgrade call was given the state built by the upgrade of another
\* connection
C17_Witness ==
    \E c \in Conns : \E i \in Calls(c, "upgrade") : nativeLog[c][i].arg[4].chan # c

\* C18: no HttpResponse operation writes the abort flag: a step that changes the
\* flag of a connection sets it to true and is no step of new, end, the write
\* methods, end_without_body, has_responded, upgrade or default_upgrade or of their
\* tasks and closures (it changes nothing they write); so a flag that is true stays
\* true.
C18_FlagNeverWritten ==
    [][\A c \in Conns :
          /\ is_aborted[c] => is_aborted'[c]
          /\ is_aborted'[c] # is_aborted[c] =>
                UNCHANGED <<obj, native, calls, lastCall, upPc, upArgs, storage, lock,
                            spawned, loopQueue, loopPc, nativeLog, panicked, issued, ran,
                            inserts>>]_vars

\* the flag was true when the closure of the connection ran and is true after the
\* native upgrade and the close of the connection
C18_Witness ==
    \E c \in Conns : \E p \in RanAt(c) :
        ran[p].aborted /\ is_aborted[c] /\ upPc[c] = "deferred" /\ c \in closed
====
